---------------------------- MODULE Spec2Model ----------------------------
(* A model of rustar (src/main.rs): a command-line tool that opens one USB *)
(* mouse, detaches kernel drivers, claims two interfaces, sends one 17-byte *)
(* HID Set-Report control transfer and releases the device again.           *)
(*                                                                          *)
(* Spec     : one run of main(), every USB call an environment step that    *)
(*            may succeed or fail.                                          *)
(* SpecLocate : open_device and main's match on its result, on longer      *)
(*            device lists.                                                 *)
(* SpecEnc  : the three report encoders applied to wide argument ranges.    *)
(*                                                                          *)
(* The model records the calls main() makes itself.  What the USB library   *)
(* does on its own when a handle goes out of scope is not part of the       *)
(* repository's source and is not modelled.                                 *)
EXTENDS Integers, Sequences, FiniteSets, TLC

VARIABLES
    pc,            \* position in main() (or in the encoder harness)
    args,          \* the parsed command line (Commands, lines 17-32)
    build,         \* "debug" (overflow checks on) or "release" (wrapping)
    devices,       \* the host's USB devices in enumeration order
    tree,          \* descriptor tree of the opened device
    driverActive,  \* interface -> a kernel driver is bound to it
    handle,        \* index in devices of the opened device, 0 = none
    endpoints,     \* Vec<Endpoint> of line 56 / line 114
    idx,           \* position of the running for loop (1-based)
    claimed,       \* interfaces this process holds a claim on
    detached,      \* interfaces whose kernel driver this run detached
    log,           \* every USB call made so far, in order, with its outcome
    report,        \* the data array of the encoder that ran, <<>> before
    result,        \* "running", "Ok", "Err", "exit1", "panic"
    message        \* what was written to stderr on the way out

vars == << pc, args, build, devices, tree, driverActive, handle, endpoints,
           idx, claimed, detached, log, report, result, message >>

-----------------------------------------------------------------------------
(* Program constants *)

VID == 13652      \* 0x3554
PID == 62729      \* 0xf509
REPORT_IFACE == 1 \* the literal interface number of lines 76 and 112
REPORT_LEN == 17  \* [u8; 17]

(* Bounds of the model *)

MaxDevices == 3         \* longest device list given to open_device on its own
MaxSessionDevices == 1  \* longest device list of a whole session
MaxConfigs == 2         \* most configurations of an enumerated descriptor tree
MaxDpi == 26060     \* largest dpi argument given to the encoder harness
MaxSetProfile == 4  \* largest profile given to set_profile_dpi in the harness

U8 == 0..255

-----------------------------------------------------------------------------
(* Integer arithmetic with Rust's overflow behaviour: in a debug build an   *)
(* overflowing operation panics, in a release build it wraps.               *)

\* a - b on u8
SubU8(a, b) == [ovf |-> a < b, val |-> (a - b) % 256]

\* a + b on u8
AddU8(a, b) == [ovf |-> a + b > 255, val |-> (a + b) % 256]

\* a * b on u8
MulU8(a, b) == [ovf |-> a * b > 255, val |-> (a * b) % 256]

\* a - b on u16
SubU16(a, b) == [ovf |-> a < b, val |-> (a - b) % 65536]

\* x as u8
AsU8(x) == x % 256

\* the i16 a mathematical integer wraps to
WrapI16(x) == ((x + 32768) % 65536) - 32768

\* a - b on i16
SubI16(a, b) == [ovf |-> a - b < -32768 \/ a - b > 32767, val |-> WrapI16(a - b)]

\* a * b on i16
MulI16(a, b) == [ovf |-> a * b < -32768 \/ a * b > 32767, val |-> WrapI16(a * b)]

Panic == [panic |-> TRUE, data |-> << >>]

Built(ovf, data) ==
    IF ovf /\ build = "debug" THEN Panic ELSE [panic |-> FALSE, data |-> data]

-----------------------------------------------------------------------------
(* Report encoders, lines 200-251 *)

\* switch_profile with the checksum byte left at 0x55
switch_profile_fixed_checksum(profile) ==
    Built(FALSE,
          << 8, 7, 0, 0, 4, 2, profile, 85, 0, 0, 0, 0, 0, 0, 0, 0, 235 >>)

\* let data: [u8; 17] of switch_profile
switch_profile(profile) ==
    LET chk == SubU8(85, profile)
    IN  Built(chk.ovf,
              << 8, 7, 0, 0, 4, 2, profile, chk.val, 0, 0, 0, 0, 0, 0, 0, 0, 235 >>)

\* set_profiles_count with the opcode of switch_profile
set_profiles_count_select_opcode(count) ==
    LET chk == SubU8(85, count)
    IN  Built(chk.ovf,
              << 8, 7, 0, 0, 4, 2, count, chk.val, 0, 0, 0, 0, 0, 0, 0, 0, 235 >>)

\* let data: [u8; 17] of set_profiles_count
set_profiles_count(count) ==
    LET chk == SubU8(85, count)
    IN  Built(chk.ovf,
              << 8, 7, 0, 0, 2, 2, count, chk.val, 0, 0, 0, 0, 0, 0, 0, 0, 235 >>)

\* set_profile_dpi with dpi_index = dpi / 50, the "- 1" forgotten
set_profile_dpi_no_decrement(profile, dpi) ==
    LET di       == dpi \div 50
        lo       == AsU8(di)
        hi       == AsU8(di \div 256)
        inner    == 19 + (12 + profile * 4) + 85
        checksum == SubU16(341, inner)
        p4       == MulU8(profile, 4)
        opcode   == AddU8(12, p4.val)
        h44      == MulU8(hi, 68)
        b9       == (85 - 2 * lo - 68 * hi) % 256
    IN  Built(checksum.ovf \/ p4.ovf \/ opcode.ovf \/ h44.ovf,
              << 8, 7, 0, 0, opcode.val, 4, lo, lo, h44.val, b9,
                 0, 0, 0, 0, 0, 0, AsU8(checksum.val) >>)

\* set_profile_dpi with hi taken from the already truncated low byte
set_profile_dpi_hi_from_lo(profile, dpi) ==
    LET di       == SubU16(dpi \div 50, 1)
        lo       == AsU8(di.val)
        hi       == AsU8(lo \div 256)
        inner    == 19 + (12 + profile * 4) + 85
        checksum == SubU16(341, inner)
        p4       == MulU8(profile, 4)
        opcode   == AddU8(12, p4.val)
        h44      == MulU8(hi, 68)
        b9       == (85 - 2 * lo - 68 * hi) % 256
    IN  Built(di.ovf \/ checksum.ovf \/ p4.ovf \/ opcode.ovf \/ h44.ovf,
              << 8, 7, 0, 0, opcode.val, 4, lo, lo, h44.val, b9,
                 0, 0, 0, 0, 0, 0, AsU8(checksum.val) >>)

\* set_profile_dpi with the checksum computed as 0x55 - (...), not 0x155 - (...)
set_profile_dpi_short_checksum(profile, dpi) ==
    LET di       == SubU16(dpi \div 50, 1)
        lo       == AsU8(di.val)
        hi       == AsU8(di.val \div 256)
        inner    == 19 + (12 + profile * 4) + 85
        checksum == SubU16(85, inner)
        p4       == MulU8(profile, 4)
        opcode   == AddU8(12, p4.val)
        h44      == MulU8(hi, 68)
        b9       == (85 - 2 * lo - 68 * hi) % 256
    IN  Built(di.ovf \/ checksum.ovf \/ p4.ovf \/ opcode.ovf \/ h44.ovf,
              << 8, 7, 0, 0, opcode.val, 4, lo, lo, h44.val, b9,
                 0, 0, 0, 0, 0, 0, AsU8(checksum.val) >>)

\* set_profile_dpi with the 0x44*hi term left out of payload byte 3
set_profile_dpi_payload_without_hi(profile, dpi) ==
    LET di       == SubU16(dpi \div 50, 1)
        lo       == AsU8(di.val)
        hi       == AsU8(di.val \div 256)
        inner    == 19 + (12 + profile * 4) + 85
        checksum == SubU16(341, inner)
        p4       == MulU8(profile, 4)
        opcode   == AddU8(12, p4.val)
        h44      == MulU8(hi, 68)
        b9       == (85 - 2 * lo) % 256
    IN  Built(di.ovf \/ checksum.ovf \/ p4.ovf \/ opcode.ovf \/ h44.ovf,
              << 8, 7, 0, 0, opcode.val, 4, lo, lo, h44.val, b9,
                 0, 0, 0, 0, 0, 0, AsU8(checksum.val) >>)

\* let data: [u8; 17] of set_profile_dpi
set_profile_dpi(profile, dpi) ==
    LET di       == SubU16(dpi \div 50, 1)            \* (dpi / 50) - 1
        lo       == AsU8(di.val)                     \* dpi_index as u8
        hi       == AsU8(di.val \div 256)            \* (dpi_index >> 8) as u8
        inner    == 19 + (12 + profile * 4) + 85     \* u16, at most 1136
        checksum == SubU16(341, inner)               \* 0x155 - (...)
        p4       == MulU8(profile, 4)                \* profile * 4
        opcode   == AddU8(12, p4.val)                \* 0x0c + profile * 4
        h44      == MulU8(hi, 68)                    \* hi * 0x44
        lo2      == MulI16(2, lo)                    \* 2*lo as i16
        left     == SubI16(85, lo2.val)              \* 0x55 - 2*lo as i16
        hi44     == MulI16(68, hi)                   \* 0x44*hi as i16
        diff     == SubI16(left.val, hi44.val)       \* ... - 0x44*hi as i16
        b9       == AsU8(diff.val % 256)             \* (... & 0xFF) as u8
    IN  Built(\/ di.ovf \/ checksum.ovf \/ p4.ovf \/ opcode.ovf \/ h44.ovf
              \/ lo2.ovf \/ left.ovf \/ hi44.ovf \/ diff.ovf,
              << 8, 7, 0, 0, opcode.val, 4, lo, lo, h44.val, b9,
                 0, 0, 0, 0, 0, 0, AsU8(checksum.val) >>)

-----------------------------------------------------------------------------
(* Device Locator, lines 122-153 *)

\* one visible device: is its descriptor readable, its ids, does open() work
DeviceSet ==
    [descOk : BOOLEAN, vid : {VID, 1133}, pid : {PID, 49271}, openOk : BOOLEAN]

DeviceLists(max) == UNION { [1..n -> DeviceSet] : n \in 0..max }

NotFound == [ok |-> FALSE, err |-> "NotFound", dev |-> 0]

\* the for loop with the search ended by the first open() that fails
RECURSIVE open_device_from_break(_, _, _, _)
open_device_from_break(devs, vid, pid, k) ==
    IF k > Len(devs) THEN NotFound
    ELSE IF ~devs[k].descOk THEN open_device_from_break(devs, vid, pid, k + 1)
    ELSE IF devs[k].vid = vid /\ devs[k].pid = pid
         THEN IF devs[k].openOk
              THEN [ok |-> TRUE, err |-> "", dev |-> k]
              ELSE NotFound
         ELSE open_device_from_break(devs, vid, pid, k + 1)

\* the for loop of lines 132-150, from position k on, and line 152
RECURSIVE open_device_from(_, _, _, _)
open_device_from(devs, vid, pid, k) ==
    IF k > Len(devs) THEN NotFound
    ELSE IF ~devs[k].descOk THEN open_device_from(devs, vid, pid, k + 1)
    ELSE IF devs[k].vid = vid /\ devs[k].pid = pid
         THEN IF devs[k].openOk
              THEN [ok |-> TRUE, err |-> "", dev |-> k]
              ELSE open_device_from(devs, vid, pid, k + 1)
         ELSE open_device_from(devs, vid, pid, k + 1)

\* open_device; listOk is the outcome of context.devices()
open_device(devs, listOk, vid, pid) ==
    IF ~listOk THEN [ok |-> FALSE, err |-> "Other", dev |-> 0]
    ELSE open_device_from(devs, vid, pid, 1)

Call(op, arg, ok) == [op |-> op, arg |-> arg, ok |-> ok]

\* the device.open() calls open_device makes, in order
RECURSIVE open_calls_from(_, _, _, _)
open_calls_from(devs, vid, pid, k) ==
    IF k > Len(devs) THEN << >>
    ELSE IF devs[k].descOk /\ devs[k].vid = vid /\ devs[k].pid = pid
         THEN IF devs[k].openOk
              THEN << Call("open", k, TRUE) >>
              ELSE << Call("open", k, FALSE) >> \o open_calls_from(devs, vid, pid, k + 1)
         ELSE open_calls_from(devs, vid, pid, k + 1)

-----------------------------------------------------------------------------
(* Endpoint Enumerator, lines 155-188 *)

\* struct Endpoint
Endpoint(c, i, s, a) == [config |-> c, iface |-> i, setting |-> s, address |-> a]

\* for endpoint_desc in interface_desc.endpoint_descriptors()
endpoint_loop(cfgnum, desc) ==
    [e \in 1..Len(desc.endpoints) |->
        Endpoint(cfgnum, desc.number, desc.setting, desc.endpoints[e])]

\* for interface_desc in interface.descriptors(), from position d on
RECURSIVE descriptor_loop(_, _, _)
descriptor_loop(cfgnum, descs, d) ==
    IF d > Len(descs) THEN << >>
    ELSE endpoint_loop(cfgnum, descs[d]) \o descriptor_loop(cfgnum, descs, d + 1)

\* for interface in config_desc.interfaces(), from position n on
RECURSIVE interface_loop(_, _, _)
interface_loop(cfgnum, ifaces, n) ==
    IF n > Len(ifaces) THEN << >>
    ELSE descriptor_loop(cfgnum, ifaces[n], 1) \o interface_loop(cfgnum, ifaces, n + 1)

\* the configuration loop ended, not continued, by an unreadable configuration
RECURSIVE configuration_loop_break(_, _)
configuration_loop_break(t, n) ==
    IF n > Len(t) THEN << >>
    ELSE IF ~t[n].readable THEN << >>
    ELSE interface_loop(t[n].number, t[n].interfaces, 1) \o configuration_loop_break(t, n + 1)

\* for n in 0..device_desc.num_configurations(), from position n on
RECURSIVE configuration_loop(_, _)
configuration_loop(t, n) ==
    IF n > Len(t) THEN << >>
    ELSE IF ~t[n].readable THEN configuration_loop(t, n + 1)
    ELSE interface_loop(t[n].number, t[n].interfaces, 1) \o configuration_loop(t, n + 1)

\* find_readable_endpoints, given that device_descriptor() succeeded
find_readable_endpoints(t) == configuration_loop(t, 1)

\* descriptor trees: a sequence of configurations, each a sequence of
\* interfaces, each a sequence of alternate settings with endpoint addresses
Alt(i, s, eps) == [number |-> i, setting |-> s, endpoints |-> eps]
Cfg(r, n, ifs) == [readable |-> r, number |-> n, interfaces |-> ifs]

Trees == {
    \* no configuration at all
    << >>,
    \* the only configuration has an interface without endpoints
    << Cfg(TRUE, 1, << << Alt(0, 0, << >>) >> >>) >>,
    \* two interfaces, one endpoint each
    << Cfg(TRUE, 1, << << Alt(0, 0, <<129>>) >>, << Alt(1, 0, <<130>>) >> >>) >>,
    \* 2 configurations x 1 interface x 2 endpoints
    << Cfg(TRUE, 1, << << Alt(0, 0, <<129, 2>>) >> >>),
       Cfg(TRUE, 2, << << Alt(0, 0, <<129, 2>>) >> >>) >>,
    \* an unreadable configuration, then interface 1 with two alternate settings
    << Cfg(FALSE, 1, << << Alt(0, 0, <<129>>) >> >>),
       Cfg(TRUE, 2, << << Alt(1, 0, <<131>>), Alt(1, 1, <<131>>) >> >>) >>
}

Ifaces == {0, 1}

-----------------------------------------------------------------------------
(* Command lines *)

Activate(count) == [op |-> "Activate", count |-> count, profile |-> 0, value |-> 0]
Select(profile) == [op |-> "Select", count |-> 0, profile |-> profile, value |-> 0]
Set(profile, value) == [op |-> "Set", count |-> 0, profile |-> profile, value |-> value]

\* the command lines a session is run with: both ends of every range
SessionArgs ==
    { Activate(c) : c \in {0, 1, 4, 5} }
    \cup { Select(p) : p \in {0, 3, 4} }
    \cup { Set(p, v) : p \in {3, 4}, v \in {49, 50, 26000, 26001} }

\* lines 80, 88, 96, 100: the text written when the argument is rejected
Rejection(a) ==
    CASE a.op = "Activate" /\ (a.count < 1 \/ a.count > 4) -> "Count must be in range [1;4]"
      [] a.op = "Select" /\ a.profile > 3 -> "Profile must be in range [0;3]"
      [] a.op = "Set" /\ a.profile > 3 -> "Profile must be in range [0;3]"
      [] a.op = "Set" /\ (a.value < 50 \/ a.value > 26000) -> "DPI value must be in range [50;26000]"
      [] OTHER -> ""

\* lines 85, 93, 105: the encoder the command dispatches to
Encode(a) ==
    CASE a.op = "Activate" -> set_profiles_count(a.count)
      [] a.op = "Select" -> switch_profile(a.profile)
      [] OTHER -> set_profile_dpi(a.profile, a.value)

-----------------------------------------------------------------------------
(* main(), lines 34-120 *)

Init ==
    /\ pc = "context"
    /\ args \in SessionArgs
    /\ build \in {"debug", "release"}
    /\ devices \in DeviceLists(MaxSessionDevices)
    /\ tree \in Trees
    /\ driverActive \in [Ifaces -> BOOLEAN]
    /\ handle = 0
    /\ endpoints = << >>
    /\ idx = 0
    /\ claimed = {}
    /\ detached = {}
    /\ log = << >>
    /\ report = << >>
    /\ result = "running"
    /\ message = ""

\* the process ends: return from main, std::process::exit(1) or a panic
Exit(res, msg) ==
    /\ pc' = "done"
    /\ result' = res
    /\ message' = msg

\* the first element of endpoints (lines 71-73), once it is known to exist
conf_endpoint == endpoints[1]

\* line 37: Context::new()?
ContextNew ==
    /\ pc = "context"
    /\ \E ok \in BOOLEAN :
          IF ok THEN pc' = "open" /\ UNCHANGED << result, message >>
                ELSE Exit("Err", "")
    /\ UNCHANGED << args, build, devices, tree, driverActive, handle, endpoints,
                    idx, claimed, detached, log, report >>

\* lines 38-48: open_device and the match on its result
OpenDevice ==
    /\ pc = "open"
    /\ \E listOk \in BOOLEAN :
          LET r == open_device(devices, listOk, VID, PID)
          IN  /\ log' = log \o (IF listOk THEN open_calls_from(devices, VID, PID, 1)
                                          ELSE << >>)
              /\ handle' = r.dev
              /\ IF r.ok THEN pc' = "find" /\ UNCHANGED << result, message >>
                 ELSE IF r.err = "NotFound" THEN Exit("exit1", "Device not found")
                 ELSE Exit("exit1", "Failed to open USB device")
    /\ UNCHANGED << args, build, devices, tree, driverActive, endpoints, idx,
                    claimed, detached, report >>

\* line 56: find_readable_endpoints(&mut device)?
FindEndpoints ==
    /\ pc = "find"
    /\ \E ok \in BOOLEAN :
          IF ok THEN /\ endpoints' = find_readable_endpoints(tree)
                     /\ idx' = 1
                     /\ pc' = "query"
                     /\ UNCHANGED << result, message >>
                ELSE Exit("Err", "") /\ UNCHANGED << endpoints, idx >>
    /\ UNCHANGED << args, build, devices, tree, driverActive, handle, claimed,
                    detached, log, report >>

\* lines 58-59 and 63-67: kernel_driver_active for the next endpoint
KernelDriverActive ==
    /\ pc = "query"
    /\ idx <= Len(endpoints)
    /\ \E ok \in BOOLEAN :
          LET f == endpoints[idx].iface
          IN  /\ log' = Append(log, Call("kernel_driver_active", f, ok))
              /\ IF ~ok
                 THEN /\ Exit("exit1", "Failed to test if interface is claimed by kernel driver")
                      /\ UNCHANGED idx
                 ELSE /\ UNCHANGED << result, message >>
                      /\ IF driverActive[f]
                         THEN pc' = "detach" /\ UNCHANGED idx
                         ELSE pc' = "query" /\ idx' = idx + 1
    /\ UNCHANGED << args, build, devices, tree, driverActive, handle, endpoints,
                    claimed, detached, report >>

\* lines 60-62: detach_kernel_driver(endpoint.iface)?
DetachKernelDriver ==
    /\ pc = "detach"
    /\ \E ok \in BOOLEAN :
          LET f == endpoints[idx].iface
          IN  /\ log' = Append(log, Call("detach_kernel_driver", f, ok))
              /\ IF ok
                 THEN /\ driverActive' = [driverActive EXCEPT ![f] = FALSE]
                      /\ detached' = detached \cup {f}
                      /\ idx' = idx + 1
                      /\ pc' = "query"
                      /\ UNCHANGED << result, message >>
                 ELSE /\ Exit("Err", "")
                      /\ UNCHANGED << driverActive, detached, idx >>
    /\ UNCHANGED << args, build, devices, tree, handle, endpoints, claimed, report >>

\* the first endpoint looked up with an empty list treated as nothing to do
FirstEndpointReturnsOk ==
    /\ pc = "query"
    /\ idx > Len(endpoints)
    /\ IF endpoints = << >>
       THEN Exit("Ok", "")
       ELSE pc' = "set_config" /\ UNCHANGED << result, message >>
    /\ UNCHANGED << args, build, devices, tree, driverActive, handle, endpoints,
                    idx, claimed, detached, log, report >>

\* lines 71-73: endpoints.first().expect(..), after the loop
FirstEndpoint ==
    /\ pc = "query"
    /\ idx > Len(endpoints)
    /\ IF endpoints = << >>
       THEN Exit("panic", "No endpoints found on the device")
       ELSE pc' = "set_config" /\ UNCHANGED << result, message >>
    /\ UNCHANGED << args, build, devices, tree, driverActive, handle, endpoints,
                    idx, claimed, detached, log, report >>

\* line 194: set_active_configuration(endpoint.config)?
SetActiveConfiguration ==
    /\ pc = "set_config"
    /\ \E ok \in BOOLEAN :
          /\ log' = Append(log, Call("set_active_configuration", conf_endpoint.config, ok))
          /\ IF ok THEN pc' = "claim_endpoint" /\ UNCHANGED << result, message >>
                   ELSE Exit("Err", "")
    /\ UNCHANGED << args, build, devices, tree, driverActive, handle, endpoints,
                    idx, claimed, detached, report >>

\* claim_interface(endpoint.iface) with its result dropped
ClaimEndpointInterfaceUnchecked ==
    /\ pc = "claim_endpoint"
    /\ \E ok \in BOOLEAN :
          /\ log' = Append(log, Call("claim_interface", conf_endpoint.iface, ok))
          /\ claimed' = IF ok THEN claimed \cup {conf_endpoint.iface} ELSE claimed
          /\ pc' = "set_alt"
    /\ UNCHANGED << args, build, devices, tree, driverActive, handle, endpoints,
                    idx, detached, report, result, message >>

\* line 195: claim_interface(endpoint.iface)?
ClaimEndpointInterface ==
    /\ pc = "claim_endpoint"
    /\ \E ok \in BOOLEAN :
          /\ log' = Append(log, Call("claim_interface", conf_endpoint.iface, ok))
          /\ IF ok THEN /\ claimed' = claimed \cup {conf_endpoint.iface}
                        /\ pc' = "set_alt"
                        /\ UNCHANGED << result, message >>
                   ELSE Exit("Err", "") /\ UNCHANGED claimed
    /\ UNCHANGED << args, build, devices, tree, driverActive, handle, endpoints,
                    idx, detached, report >>

\* set_alternate_setting with its result dropped instead of propagated
SetAlternateSettingUnchecked ==
    /\ pc = "set_alt"
    /\ \E ok \in BOOLEAN :
          /\ log' = Append(log, Call("set_alternate_setting", conf_endpoint.iface, ok))
          /\ pc' = "claim_report"
    /\ UNCHANGED << args, build, devices, tree, driverActive, handle, endpoints,
                    idx, claimed, detached, report, result, message >>

\* lines 196 and 75: set_alternate_setting(endpoint.iface, endpoint.setting), then ?
SetAlternateSetting ==
    /\ pc = "set_alt"
    /\ \E ok \in BOOLEAN :
          /\ log' = Append(log, Call("set_alternate_setting", conf_endpoint.iface, ok))
          /\ IF ok THEN pc' = "claim_report" /\ UNCHANGED << result, message >>
                   ELSE Exit("Err", "")
    /\ UNCHANGED << args, build, devices, tree, driverActive, handle, endpoints,
                    idx, claimed, detached, report >>

\* line 76: claim_interface(1)?
ClaimReportInterface ==
    /\ pc = "claim_report"
    /\ \E ok \in BOOLEAN :
          /\ log' = Append(log, Call("claim_interface", REPORT_IFACE, ok))
          /\ IF ok THEN /\ claimed' = claimed \cup {REPORT_IFACE}
                        /\ pc' = "command"
                        /\ UNCHANGED << result, message >>
                   ELSE Exit("Err", "") /\ UNCHANGED claimed
    /\ UNCHANGED << args, build, devices, tree, driverActive, handle, endpoints,
                    idx, detached, report >>

\* lines 78-107: the range checks, the encoder and its write_control
Command ==
    /\ pc = "command"
    /\ IF Rejection(args) # ""
       THEN Exit("exit1", Rejection(args)) /\ UNCHANGED << log, report >>
       ELSE LET enc == Encode(args)
            IN  IF enc.panic
                THEN Exit("panic", "attempt to compute with overflow")
                     /\ UNCHANGED << log, report >>
                ELSE \E ok \in BOOLEAN :
                        /\ report' = enc.data
                        /\ log' = Append(log, Call("write_control", REPORT_IFACE, ok))
                        /\ IF ok THEN pc' = "release_endpoint"
                                      /\ UNCHANGED << result, message >>
                                 ELSE Exit("Err", "")
    /\ UNCHANGED << args, build, devices, tree, driverActive, handle, endpoints,
                    idx, claimed, detached >>

\* line 111: release_interface(conf_endpoint.iface)?
ReleaseEndpointInterface ==
    /\ pc = "release_endpoint"
    /\ \E ok \in BOOLEAN :
          /\ log' = Append(log, Call("release_interface", conf_endpoint.iface, ok))
          /\ IF ok THEN /\ claimed' = claimed \ {conf_endpoint.iface}
                        /\ pc' = "release_report"
                        /\ UNCHANGED << result, message >>
                   ELSE Exit("Err", "") /\ UNCHANGED claimed
    /\ UNCHANGED << args, build, devices, tree, driverActive, handle, endpoints,
                    idx, detached, report >>

\* line 112: release_interface(1)?
ReleaseReportInterface ==
    /\ pc = "release_report"
    /\ \E ok \in BOOLEAN :
          /\ log' = Append(log, Call("release_interface", REPORT_IFACE, ok))
          /\ IF ok THEN /\ claimed' = claimed \ {REPORT_IFACE}
                        /\ pc' = "find_again"
                        /\ UNCHANGED << result, message >>
                   ELSE Exit("Err", "") /\ UNCHANGED claimed
    /\ UNCHANGED << args, build, devices, tree, driverActive, handle, endpoints,
                    idx, detached, report >>

\* line 114: find_readable_endpoints(&mut device).unwrap(); the descriptors
\* have not changed, so the list is the one of line 56
FindEndpointsAgain ==
    /\ pc = "find_again"
    /\ \E ok \in BOOLEAN :
          IF ok THEN /\ endpoints' = find_readable_endpoints(tree)
                     /\ idx' = 1
                     /\ pc' = "attach"
                     /\ UNCHANGED << result, message >>
                ELSE /\ Exit("panic", "called Result::unwrap() on an Err value")
                     /\ UNCHANGED << endpoints, idx >>
    /\ UNCHANGED << args, build, devices, tree, driverActive, handle, claimed,
                    detached, log, report >>

\* lines 114-117: attach_kernel_driver(edp.iface)? for the next endpoint
AttachKernelDriver ==
    /\ pc = "attach"
    /\ idx <= Len(endpoints)
    /\ \E ok \in BOOLEAN :
          LET f == endpoints[idx].iface
          IN  /\ log' = Append(log, Call("attach_kernel_driver", f, ok))
              /\ IF ok
                 THEN /\ driverActive' = [driverActive EXCEPT ![f] = TRUE]
                      /\ idx' = idx + 1
                      /\ pc' = "attach"
                      /\ UNCHANGED << result, message >>
                 ELSE Exit("Err", "") /\ UNCHANGED << driverActive, idx >>
    /\ UNCHANGED << args, build, devices, tree, handle, endpoints, claimed,
                    detached, report >>

\* line 119: Ok(())
Return ==
    /\ pc = "attach"
    /\ idx > Len(endpoints)
    /\ Exit("Ok", "")
    /\ UNCHANGED << args, build, devices, tree, driverActive, handle, endpoints,
                    idx, claimed, detached, log, report >>

Next ==
    \/ ContextNew
    \/ OpenDevice
    \/ FindEndpoints
    \/ KernelDriverActive
    \/ DetachKernelDriver
    \/ FirstEndpoint
    \/ SetActiveConfiguration
    \/ ClaimEndpointInterface
    \/ SetAlternateSetting
    \/ ClaimReportInterface
    \/ Command
    \/ ReleaseEndpointInterface
    \/ ReleaseReportInterface
    \/ FindEndpointsAgain
    \/ AttachKernelDriver
    \/ Return

Spec == Init /\ [][Next]_vars

-----------------------------------------------------------------------------
(* The Device Locator on its own: main() from line 38 to line 48, for every *)
(* device list of up to MaxDevices devices.                                 *)

InitLocate ==
    /\ pc = "open"
    /\ args = Select(0)
    /\ build = "release"
    /\ devices \in DeviceLists(MaxDevices)
    /\ tree = << >>
    /\ driverActive = [f \in Ifaces |-> FALSE]
    /\ handle = 0
    /\ endpoints = << >>
    /\ idx = 0
    /\ claimed = {}
    /\ detached = {}
    /\ log = << >>
    /\ report = << >>
    /\ result = "running"
    /\ message = ""

NextLocate == OpenDevice

SpecLocate == InitLocate /\ [][NextLocate]_vars

-----------------------------------------------------------------------------
(* The Endpoint Enumerator on its own: line 56 for every descriptor tree of *)
(* up to MaxConfigs configurations, each unreadable or with up to two       *)
(* interfaces, up to two alternate settings and up to two endpoints.        *)

EndpointLists == { << >>, << 129 >>, << 129, 2 >> }

\* the alternate settings 0..n-1 of interface i, any endpoints on each
AltLists(i, n) ==
    { [d \in 1..n |-> Alt(i, d - 1, e[d])] : e \in [1..n -> EndpointLists] }

InterfaceLists ==
    { << >> }
    \cup { << a >> : a \in AltLists(0, 1) \cup AltLists(0, 2) }
    \cup { << a, b >> : a \in AltLists(0, 1) \cup AltLists(0, 2), b \in AltLists(1, 1) }

ConfigShapes ==
    { Cfg(TRUE, 0, ifs) : ifs \in InterfaceLists }
    \cup { Cfg(FALSE, 0, << << Alt(0, 0, << 129 >>) >> >>) }

\* the tree of the configurations s; configuration c carries the number c
EnumTree(s) == [c \in DOMAIN s |-> Cfg(s[c].readable, c, s[c].interfaces)]

InitEnum ==
    /\ pc = "find"
    /\ args = Select(0)
    /\ build = "release"
    /\ devices = << [descOk |-> TRUE, vid |-> VID, pid |-> PID, openOk |-> TRUE] >>
    /\ \E n \in 0..MaxConfigs : \E s \in [1..n -> ConfigShapes] : tree = EnumTree(s)
    /\ driverActive = [f \in Ifaces |-> FALSE]
    /\ handle = 1
    /\ endpoints = << >>
    /\ idx = 0
    /\ claimed = {}
    /\ detached = {}
    /\ log = << Call("open", 1, TRUE) >>
    /\ report = << >>
    /\ result = "running"
    /\ message = ""

NextEnum == FindEndpoints

SpecEnum == InitEnum /\ [][NextEnum]_vars

-----------------------------------------------------------------------------
(* The encoders on their own: every argument of the u8 parameters, and the  *)
(* dpi values at and next to every multiple of 50 up to MaxDpi.             *)

DpiArgs == { d \in 0..MaxDpi : d % 50 \in {0, 1, 49} }

EncArgs ==
    { Activate(c) : c \in U8 }
    \cup { Select(p) : p \in U8 }
    \cup { Set(p, v) : p \in 0..MaxSetProfile, v \in DpiArgs }

InitEnc ==
    /\ pc = "encode"
    /\ args \in EncArgs
    /\ build \in {"debug", "release"}
    /\ devices = << >>
    /\ tree = << >>
    /\ driverActive = [f \in Ifaces |-> FALSE]
    /\ handle = 0
    /\ endpoints = << >>
    /\ idx = 0
    /\ claimed = {}
    /\ detached = {}
    /\ log = << >>
    /\ report = << >>
    /\ result = "running"
    /\ message = ""

\* the encoder's data array is built, or the build's overflow check panics
Encoded(enc) ==
    /\ pc' = "encoded"
    /\ report' = enc.data
    /\ result' = IF enc.panic THEN "panic" ELSE "Ok"
    /\ UNCHANGED << args, build, devices, tree, driverActive, handle, endpoints,
                    idx, claimed, detached, log, message >>

\* lines 217-227
RunSetProfilesCount ==
    pc = "encode" /\ args.op = "Activate" /\ Encoded(set_profiles_count(args.count))

\* lines 200-210
RunSwitchProfile ==
    pc = "encode" /\ args.op = "Select" /\ Encoded(switch_profile(args.profile))

\* lines 233-249
RunSetProfileDpi ==
    pc = "encode" /\ args.op = "Set" /\ Encoded(set_profile_dpi(args.profile, args.value))

NextEnc == RunSetProfilesCount \/ RunSwitchProfile \/ RunSetProfileDpi

SpecEnc == InitEnc /\ [][NextEnc]_vars

-----------------------------------------------------------------------------
(* What the log says *)

Calls(op) == { k \in DOMAIN log : log[k].op = op }

\* op was called on interface f (at a position after k)
AttemptedAfter(op, f, k) == \E j \in Calls(op) : j > k /\ log[j].arg = f
Attempted(op, f) == AttemptedAfter(op, f, 0)

\* op succeeded on f at a position before k
SucceededBefore(op, f, k) == \E j \in Calls(op) : j < k /\ log[j].arg = f /\ log[j].ok

\* the interfaces a claim_interface call of this run succeeded on
EverClaimed == { log[k].arg : k \in { j \in Calls("claim_interface") : log[j].ok } }

SetupOps == { "kernel_driver_active", "detach_kernel_driver",
              "set_active_configuration", "claim_interface",
              "set_alternate_setting" }

-----------------------------------------------------------------------------
(* Claims about the session *)

\* C1: when a run that detached a kernel driver or claimed an interface has
\* ended, whatever its exit path, no interface is still claimed and a
\* reattach was attempted for every interface whose driver it detached.
C1_TeardownOnEveryExit ==
    (pc = "done" /\ (detached # {} \/ EverClaimed # {}))
        => /\ claimed = {}
           /\ \A f \in detached : Attempted("attach_kernel_driver", f)

\* C2: after a failed write_control, release_interface is still attempted
\* for the first endpoint's interface and for interface 1, and
\* attach_kernel_driver for every interface that was detached.
C2_TeardownAfterFailedTransfer ==
    \A k \in Calls("write_control") :
        (pc = "done" /\ ~log[k].ok)
            => /\ AttemptedAfter("release_interface", conf_endpoint.iface, k)
               /\ AttemptedAfter("release_interface", REPORT_IFACE, k)
               /\ \A f \in detached : AttemptedAfter("attach_kernel_driver", f, k)

\* C3: a run whose argument is out of range performs no USB operation: the
\* argument is rejected before any open, detach, set-configuration, claim or
\* control transfer.
C3_RejectedBeforeUsb ==
    Rejection(args) # "" => log = << >>

\* C4: the verdict of a finished run is Ok exactly when the command's control
\* transfer succeeded; teardown failures do not change it.
C4_VerdictIsTransferOutcome ==
    pc = "done"
        => (result = "Ok" <=> \E k \in Calls("write_control") : log[k].ok)

\* C10: at most one control transfer is issued, only after a successful
\* set_active_configuration, set_alternate_setting and claim of both
\* interfaces, and never in a run in which a kernel-driver query, detach,
\* set-configuration, claim or set-alternate-setting call failed.
C10_SingleGuardedTransfer ==
    /\ Cardinality(Calls("write_control")) <= 1
    /\ \A k \in Calls("write_control") :
          /\ SucceededBefore("set_active_configuration", conf_endpoint.config, k)
          /\ SucceededBefore("set_alternate_setting", conf_endpoint.iface, k)
          /\ SucceededBefore("claim_interface", conf_endpoint.iface, k)
          /\ SucceededBefore("claim_interface", REPORT_IFACE, k)
    /\ (\E j \in DOMAIN log : log[j].op \in SetupOps /\ ~log[j].ok)
          => Calls("write_control") = {}

\* C10 witness: a run has ended on its one, failed, control transfer
C10_Witness ==
    /\ pc = "done"
    /\ Len(log) > 0
    /\ log[Len(log)].op = "write_control"
    /\ ~log[Len(log)].ok
    /\ detached # {}

-----------------------------------------------------------------------------
(* Claims about the Device Locator *)

\* the devices open_device could return: readable, both ids equal, openable
Eligible ==
    { k \in DOMAIN devices :
        /\ devices[k].descOk
        /\ devices[k].vid = VID
        /\ devices[k].pid = PID
        /\ devices[k].openOk }

\* context.devices() returned the list and open_device has finished
Searched == pc # "open" /\ message # "Failed to open USB device"

\* C5: when a matching device was found but could not be opened, and no
\* matching device opened, the run does not report "device not found".
C5_OpenFailureDistinct ==
    (Searched /\ handle = 0 /\ \E k \in Calls("open") : ~log[k].ok)
        => message # "Device not found"

\* C6: open_device returns the first device in enumeration order that is
\* readable, matches both ids and opens; unreadable devices and matching
\* devices that fail to open are skipped; without such a device it is NotFound.
C6_FirstOpenableMatch ==
    Searched
        => IF Eligible = {}
           THEN handle = 0 /\ message = "Device not found"
           ELSE /\ handle \in Eligible
                /\ \A k \in Eligible : handle <= k
                /\ result = "running"

\* C6 witness: the second device was opened after the first, a matching one,
\* failed to open
C6_Witness ==
    /\ Searched
    /\ handle = 2
    /\ devices[1].descOk /\ devices[1].vid = VID /\ devices[1].pid = PID
    /\ ~devices[1].openOk
    /\ Len(devices) = 3 /\ 3 \in Eligible

-----------------------------------------------------------------------------
(* Claims about the Report Encoder *)

\* C7: for count in 1..4 the report of set_profiles_count is
\* [08 07 00 00 02 02 count (0x55 - count) mod 256 00*8 eb]; count = 4 gives
\* [08 07 00 00 02 02 04 51 00 00 00 00 00 00 00 00 eb].
C7_SetProfilesCountReport ==
    (pc = "encoded" /\ args.op = "Activate" /\ args.count \in 1..4)
        => /\ result = "Ok"
           /\ report = << 8, 7, 0, 0, 2, 2, args.count, (85 - args.count) % 256,
                          0, 0, 0, 0, 0, 0, 0, 0, 235 >>
           /\ args.count = 4
                 => report = << 8, 7, 0, 0, 2, 2, 4, 81, 0, 0, 0, 0, 0, 0, 0, 0, 235 >>

\* C7 witness: activate 4 has been encoded
C7_Witness ==
    pc = "encoded" /\ args = Activate(4) /\ Len(report) = REPORT_LEN /\ report[8] = 81

\* C8: for profile in 0..3 the report of switch_profile has 17 bytes, header
\* [08 07 00 00], opcode 0x04, length 0x02, payload byte profile, checksum
\* (0x55 - profile) mod 256 and zero at indices 8..15.
C8_SwitchProfileReport ==
    (pc = "encoded" /\ args.op = "Select" /\ args.profile \in 0..3)
        => /\ result = "Ok"
           /\ Len(report) = REPORT_LEN
           /\ SubSeq(report, 1, 4) = << 8, 7, 0, 0 >>
           /\ report[5] = 4
           /\ report[6] = 2
           /\ report[7] = args.profile
           /\ report[8] = (85 - args.profile) % 256
           /\ \A i \in 9..16 : report[i] = 0

\* C8 witness: select 2 has been encoded, checksum 0x53
C8_Witness ==
    pc = "encoded" /\ args = Select(2) /\ Len(report) = REPORT_LEN /\ report[8] = 83

\* C9: for profile in 0..3 and dpi a multiple of 50 in 50..26000, with
\* dpiIndex = dpi/50 - 1, lo = dpiIndex mod 256, hi = dpiIndex div 256, the
\* report of set_profile_dpi has opcode 0x0c + 4*profile, length 4, payload
\* [lo, lo, hi*0x44, (0x55 - 2*lo - 0x44*hi) mod 256], zeros at 10..15 and
\* final byte (0x155 - (0x13 + (0x0c + 4*profile) + 0x55)) mod 256, and the
\* encoded lo and hi give back dpiIndex.
C9_SetProfileDpiReport ==
    (/\ pc = "encoded"
     /\ args.op = "Set"
     /\ args.profile \in 0..3
     /\ args.value \in 50..26000
     /\ args.value % 50 = 0)
        => LET dpiIndex == (args.value \div 50) - 1
               lo == dpiIndex % 256
               hi == dpiIndex \div 256
           IN  /\ result = "Ok"
               /\ report = << 8, 7, 0, 0, 12 + 4 * args.profile, 4,
                              lo, lo, hi * 68, (85 - 2 * lo - 68 * hi) % 256,
                              0, 0, 0, 0, 0, 0,
                              (341 - (19 + (12 + 4 * args.profile) + 85)) % 256 >>
               /\ report[7] + 256 * (report[9] \div 68) = dpiIndex

\* C9 witness: set 3 26000 has been encoded: dpiIndex 519, lo 7, hi 2
C9_Witness ==
    /\ pc = "encoded"
    /\ args = Set(3, 26000)
    /\ Len(report) = REPORT_LEN
    /\ report[7] = 7
    /\ report[9] = 136

-----------------------------------------------------------------------------
(* Further claims about the session *)

\* line 56 has returned Ok: the endpoint list is known
Enumerated == idx >= 1

\* C11: when endpoint enumeration yields no record, the run ends in the fatal
\* "No endpoints found" error and performs no kernel-driver detach, no
\* set-configuration, no interface claim and no control transfer.
C11_NoEndpointsIsFatal ==
    (Enumerated /\ endpoints = << >>)
        => /\ \A k \in DOMAIN log : log[k].op = "open"
           /\ claimed = {} /\ detached = {} /\ report = << >>
           /\ pc \in {"query", "done"}
           /\ pc = "done"
                 => /\ result = "panic"
                    /\ message = "No endpoints found on the device"

\* C11 witness: a device whose only interface has no endpoints was opened and
\* the run has ended in the panic
C11_Witness ==
    /\ pc = "done"
    /\ Enumerated
    /\ tree # << >>
    /\ endpoints = << >>
    /\ result = "panic"

\* C12: attach_kernel_driver is attempted only on interfaces whose kernel
\* driver this run detached, and at most once on each.
C12_AttachOnlyDetachedOnce ==
    \A k \in Calls("attach_kernel_driver") :
        /\ log[k].arg \in detached
        /\ \A j \in Calls("attach_kernel_driver") : log[j].arg = log[k].arg => j = k

\* C13: once teardown has begun, release_interface is attempted on every
\* interface the run claimed, also after an earlier release failed.
C13_ReleaseEveryClaimed ==
    (pc = "done" /\ Calls("release_interface") # {})
        => \A f \in EverClaimed : Attempted("release_interface", f)

\* C14 as stated: set_active_configuration and set_alternate_setting both
\* happen before any claim_interface call.
C14_ConfigureBeforeAnyClaim ==
    \A k \in Calls("set_active_configuration") \cup Calls("set_alternate_setting") :
        \A j \in Calls("claim_interface") : k < j

\* C14 as amended: set_active_configuration happens before every
\* claim_interface call and never once an interface is claimed;
\* set_alternate_setting is called right after the one claim_interface call
\* that precedes it, a successful claim of the same interface.
C14_SetConfigurationBeforeClaimAltAfter ==
    /\ \A k \in Calls("set_active_configuration") :
          /\ \A j \in Calls("claim_interface") : k < j
          /\ \A j \in Calls("set_alternate_setting") : k < j
    /\ pc = "set_config" => claimed = {}
    /\ \A k \in Calls("set_alternate_setting") :
          /\ { j \in Calls("claim_interface") : j < k } = {k - 1}
          /\ log[k - 1].arg = log[k].arg
          /\ log[k - 1].ok
          /\ log[k].arg = conf_endpoint.iface

\* C14 witness: the alternate setting was set and interface 1 claimed after it
C14_Witness ==
    /\ pc = "command"
    /\ Calls("set_alternate_setting") # {}
    /\ claimed = {0, 1}

\* C15: every claim_interface call is preceded by a successful
\* kernel_driver_active query on the same interface, and no interface is
\* claimed while a kernel driver is attached to it.
C15_QueryBeforeClaim ==
    /\ \A k \in Calls("claim_interface") :
          SucceededBefore("kernel_driver_active", log[k].arg, k)
    /\ \A k \in Calls("claim_interface") :
          (k = Len(log) /\ log[k].ok) => ~driverActive[log[k].arg]

-----------------------------------------------------------------------------
(* Claims about the Endpoint Enumerator *)

\* the endpoint descriptors of the readable configurations of t, each named
\* by its positions << configuration, interface, alternate setting, endpoint >>
EndpointPaths(t) ==
    UNION { UNION { UNION { { << n, i, d, e >> :
                                e \in DOMAIN t[n].interfaces[i][d].endpoints } :
                            d \in DOMAIN t[n].interfaces[i] } :
                    i \in DOMAIN t[n].interfaces } :
            n \in { m \in DOMAIN t : t[m].readable } }

\* descriptor order: configuration, then interface, then setting, then endpoint
PathBefore(p, q) ==
    \E k \in 1..4 : p[k] < q[k] /\ \A j \in 1..(k - 1) : p[j] = q[j]

PathRank(t, p) == Cardinality({ q \in EndpointPaths(t) : PathBefore(q, p) }) + 1

\* C16: find_readable_endpoints returns exactly one record per endpoint
\* descriptor of every readable configuration, in descriptor order, each
\* tagged with its configuration, interface and alternate-setting number and
\* its address; an unreadable configuration contributes nothing and does not
\* fail the call.
C16_OneRecordPerEndpointInOrder ==
    (pc = "query" /\ Enumerated)
        => /\ Len(endpoints) = Cardinality(EndpointPaths(tree))
           /\ \A p \in EndpointPaths(tree) :
                 LET desc == tree[p[1]].interfaces[p[2]][p[3]]
                 IN  endpoints[PathRank(tree, p)] =
                        [config |-> tree[p[1]].number,
                         iface |-> desc.number,
                         setting |-> desc.setting,
                         address |-> desc.endpoints[p[4]]]

\* C16 witness: an unreadable configuration followed by one with
\* 1 interface x 2 alternate settings x 2 endpoints has given 4 records
C16_Witness ==
    /\ pc = "query"
    /\ Len(tree) = 2
    /\ ~tree[1].readable
    /\ tree[2].readable
    /\ Len(tree[2].interfaces) = 1
    /\ Len(endpoints) = 4
    /\ endpoints[3].setting = 1 /\ endpoints[3].config = 2

-----------------------------------------------------------------------------
(* Further claims about the Report Encoder *)

\* C17: for every count, profile and dpi of the parameter types, the encoder
\* builds a 17-byte report without an arithmetic fault, 0x55 - count and
\* 0x55 - profile wrapping modulo 256.
C17_EncodersTotal ==
    pc = "encoded"
        => /\ result = "Ok"
           /\ Len(report) = REPORT_LEN
           /\ args.op = "Activate" => report[8] = (85 - args.count) % 256
           /\ args.op = "Select" => report[8] = (85 - args.profile) % 256

\* the dpi arguments main lets through, and the dpi / 50 they give
ValidDpi == 50..26000
Floors == 1..520

\* C18: for profile in 0..3 and dpi in 50..26000 the report for dpi is the
\* report for 50 * floor(dpi / 50), and a dpi with another floor(dpi / 50)
\* gives another report.
C18_DpiRoundsDownInjective ==
    (/\ pc = "encoded"
     /\ args.op = "Set"
     /\ args.profile \in 0..3
     /\ args.value \in ValidDpi)
        => /\ result = "Ok"
           /\ report = set_profile_dpi(args.profile, 50 * (args.value \div 50)).data
           /\ \A k \in Floors :
                 k # args.value \div 50
                    => set_profile_dpi(args.profile, 50 * k).data # report

\* C18 witness: set 1 12899 was encoded like set 1 12850: index 256, lo 0, hi 1
C18_Witness ==
    /\ pc = "encoded"
    /\ args = Set(1, 12899)
    /\ result = "Ok"
    /\ report[7] = 0
    /\ report[9] = 68

\* C19: for arguments that pass main's range checks no intermediate value of
\* an encoder leaves its declared width: a build with overflow checks does
\* not panic, and the bytes are the exact, unwrapped values.
C19_ValidatedArgsStayInWidth ==
    (pc = "encoded" /\ Rejection(args) = "")
        => /\ result = "Ok"
           /\ args.op = "Activate" => report[8] = 85 - args.count
           /\ args.op = "Select" => report[8] = 85 - args.profile
           /\ args.op = "Set"
                 => LET dpi_index == (args.value \div 50) - 1
                        lo == dpi_index % 256
                        hi == dpi_index \div 256
                    IN  /\ dpi_index \in 0..65535
                        /\ report[5] = 12 + args.profile * 4
                        /\ report[9] = hi * 68
                        /\ 85 - 2 * lo - 68 * hi \in -32768..32767
                        /\ report[17] = 341 - (19 + (12 + 4 * args.profile) + 85)

\* C19 witness: a build with overflow checks has encoded set 3 26000
C19_Witness ==
    /\ pc = "encoded"
    /\ build = "debug"
    /\ args = Set(3, 26000)
    /\ result = "Ok"
    /\ report[17] = 213

\* the sum of bytes a..b of s (1-based)
RECURSIVE SumBytes(_, _, _)
SumBytes(s, a, b) == IF a > b THEN 0 ELSE s[a] + SumBytes(s, a + 1, b)

\* C20: in every report built for validated arguments the payload bytes, as
\* many as the length byte says (2 for Set Profile Count and Select Profile,
\* 4 for Set Profile DPI), starting right after it, sum to 0x55 modulo 256.
C20_PayloadSumsTo55 ==
    (pc = "encoded" /\ Rejection(args) = "")
        => /\ result = "Ok"
           /\ report[6] = (IF args.op = "Set" THEN 4 ELSE 2)
           /\ SumBytes(report, 7, 6 + report[6]) % 256 = 85

\* C20 witness: set 0 25650 was encoded: index 512, payload [00 00 88 cd]
C20_Witness ==
    /\ pc = "encoded"
    /\ args = Set(0, 25650)
    /\ result = "Ok"
    /\ SubSeq(report, 7, 10) = << 0, 0, 136, 205 >>

=============================================================================
